---- MODULE Spec2Model ----
(***************************************************************************)
(* Model of the tankwar host relay (game/network/ServerNetwork.ts) and of  *)
(* the proxy bookkeeping of the game scene (Game / TankManager).           *)
(*                                                                         *)
(* Transport (PeerJS Peer and DataConnection) is the environment: a Peer   *)
(* emits open / disconnected / error, a DataConnection emits open / data / *)
(* close / error.  Handlers run to completion (single-threaded event       *)
(* loop), so each handler is one action.  The variables sent, emitted and  *)
(* last record what the handler that ran last transmitted, notified and    *)
(* was called with; every action overwrites them.                          *)
(***************************************************************************)
EXTENDS Integers, Sequences, FiniteSets, TLC

\* ------------------------------------------------------------------ bounds
MaxAttempts == 2
MaxConns == 2
NumClients == 2
NumRemotes == 1
Fine == 2
MaxDelta == 1
MaxChatPeriods == 1
MaxKeys == 2
MaxRelayed == 2
MaxShootPeriods == 2
MaxLoopPeriods == 2
MaxIdle == 30
MaxRespawns == 1

\* ------------------------------------------------------- program constants
HostId == 0
NoPeer == 0
LocalUuid == 0
StaleTimeout == 5000
RateLimit == 600
MessageLimit == 100
MaxKept == 50
ShootDelay == 750
MinInterval == 100
HalfInterval == MinInterval \div 2
SteeringIncrement == 4
SteeringClamp == 50

Attempts == 1..MaxAttempts
Conns == 1..MaxConns
ClientIds == 1..NumClients
NoMetadata == <<"undefined", 0>>
HostMetadata(a) == <<"host", a>>
ConnMetadata(c) == <<"conn", c>>

\* Envelopes a client may put on the wire: an application channel or a
\* reserved one, a payload, and a claimed origin (a client's identifier or
\* the host's).  Messages takes four of the eight combinations, chosen so
\* that every pair of values of two fields occurs in one of them.
WireChannels == {"chat", "peers"}
WireData == {"a", "b"}
WirePeers == {1, HostId}
Messages ==
    {m \in [channel : WireChannels, data : WireData, peer : WirePeers] :
        (m.peer = HostId) = ((m.channel = "chat") # (m.data = "a"))}

VARIABLES
    status,            \* last status notification emitted
    peer,              \* this.peer: the attempt whose Peer it is, or NoPeer
    metadata,          \* this.metadata
    handleConnection,  \* "unset" | "set"
    connections,       \* this.connections: a Set, kept in insertion order
    peerSt,            \* per connect() attempt: the Peer it created
    promise,           \* per connect() attempt: the promise it returned
    everConnected,     \* per attempt: Connected was emitted by its open handler
    cst,               \* per DataConnection: where the host's handlers stand
    copen,             \* per DataConnection: transport state
    cpeer,             \* per DataConnection: connection.peer
    verdict,           \* per DataConnection: what the predicate answered
    sent,              \* connection.send calls of the last handler, in order
    emitted,           \* local notifications of the last handler, in order
    last,              \* the last handler and its arguments
    firstSent          \* per DataConnection: the first envelope sent on it, if any

netVars == <<status, peer, metadata, handleConnection, connections, peerSt,
             promise, everConnected, cst, copen, cpeer, verdict, sent, emitted,
             last, firstSent>>

\* The scene (Game, TankManager); described with its operations below.
VARIABLES
    now,           \* Date.now()
    tanks,         \* TankManager (the Map itself): uuid -> the tank stored
    networkTanks,  \* TankManager.networkTanks: the uuids it indexes
    buffer,        \* the pending Map of create(): entries in insertion order
    loopAlive,     \* the 100 ms loop of create() is still scheduled
    gSent,         \* channel sends of the last handler
    gEvents,       \* TankManager notifications of the last handler
    gLast          \* the last handler and its arguments

gameVars == <<now, tanks, networkTanks, buffer, loopAlive, gSent, gEvents,
              gLast>>

\* The property bag of one tank (Tank.properties); described below.
VARIABLES
    bag,           \* property name -> the value a read of it gives
    fired,         \* onChange and change notifications of the last operation
    dies,          \* calls of die() made by the last operation
    tLast          \* the last operation and its argument

tankVars == <<bag, fired, dies, tLast>>

\* The chat box (ChatUi); described below.
VARIABLES
    chatNow,          \* Date.now()
    lastMessageTime,  \* lastMessageTime.current
    messages,         \* the messages state
    inputValue,       \* inputRef.current.value
    chatSent,         \* chat envelopes handed to the network by the last handler
    chatLast          \* the last handler and its arguments

chatVars == <<chatNow, lastMessageTime, messages, inputValue, chatSent, chatLast>>

\* What the host did for the envelopes it received, in program order
\* (kept for the data handler alone; described with the relay below).
VARIABLES
    relayLog       \* local dispatches and connection.send calls, oldest first

relayVars == <<relayLog>>

\* The player's tank as a shooter (Tank.shoot, TankPlayer.shoot).
VARIABLES
    shootNow,      \* Date.now()
    lastShot,      \* this.lastShot
    shooterDead,   \* this.isDead()
    shootSent,     \* game.events.send calls of the last handler
    shootTimes,    \* Date.now() of every tank:shoot event sent, oldest first
    shootLast      \* the last handler and what it returned

shootVars == <<shootNow, lastShot, shooterDead, shootSent, shootTimes, shootLast>>

\* One asyncLoop (the 100 ms loop of create()).
VARIABLES
    loopNow,        \* Date.now()
    loopPhase,      \* "running" (in callback) | "waiting" (timer set) | "stopped"
    loopStart,      \* start of the tick that runs or ran last
    loopPrevStart,  \* start of the tick before it
    loopDelay,      \* the delay given to setTimeout last
    loopDue,        \* the time that timer is due
    loopActive,     \* invocations of the callback that have not settled
    loopLast        \* the last step of the loop

loopVars == <<loopNow, loopPhase, loopStart, loopPrevStart, loopDelay, loopDue,
              loopActive, loopLast>>

\* The steering of the player's tank under PlayerController.update.
VARIABLES
    steering,      \* tank.steering, in hundredths
    steerKeys,     \* the turn keys the last update saw held
    steerIdle      \* updates since a turn key was last seen held

steerVars == <<steering, steerKeys, steerIdle>>

\* A TankManager on its own, under any calls of its public methods.
VARIABLES
    mgrTanks,      \* the Map itself: key -> the tank object stored (or none)
    mgrNetwork,    \* networkTanks: key -> the tank object indexed (or none)
    mgrEvents,     \* notifications of the last call
    mgrLast        \* the last call and its arguments

managerVars == <<mgrTanks, mgrNetwork, mgrEvents, mgrLast>>

\* The remote participant whose snapshots the scene receives.
VARIABLES
    incarnation    \* the uuid of the player tank it has now

respawnVars == <<incarnation>>

lateVars == <<steerVars, managerVars, respawnVars>>
moreVars == <<relayVars, shootVars, loopVars, lateVars>>

\* ------------------------------------------------------------------ helpers
SeqToSet(s) == {s[i] : i \in 1..Len(s)}
SetAdd(s, x) == IF x \in SeqToSet(s) THEN s ELSE Append(s, x)
SetDelete(s, x) == SelectSeq(s, LAMBDA y : y # x)
Count(s, P(_)) == Cardinality({i \in 1..Len(s) : P(s[i])})
Emit(ev, arg) == [ev |-> ev, arg |-> arg]
Call(op, c, a, m) == [op |-> op, conn |-> c, attempt |-> a, msg |-> m]
NoMsg == [channel |-> "none", data |-> "none", peer |-> HostId]

\* ------------------------------------------------------ ServerNetwork pure
PeerDataOf(c) == [uuid |-> cpeer[c], metadata |-> ConnMetadata(c)]

getPeerData(md, pr) ==
    IF md # NoMetadata /\ pr # NoPeer
    THEN <<[uuid |-> HostId, metadata |-> md]>>
    ELSE <<>>

\* connectedPeers without the push of the host's own entry.
connectedPeersWithoutHost(conns, md, pr) ==
    [i \in 1..Len(conns) |-> PeerDataOf(conns[i])]

connectedPeers(conns, md, pr) ==
    [i \in 1..Len(conns) |-> PeerDataOf(conns[i])] \o getPeerData(md, pr)

\* broadcast without the test against the excluded connection.
broadcastNoExclude(conns, data, exclude) ==
    [i \in 1..Len(conns) |-> [to |-> conns[i], env |-> data]]

broadcast(conns, data, exclude) ==
    LET targets == SelectSeq(conns, LAMBDA c : c # exclude)
    IN [i \in 1..Len(targets) |-> [to |-> targets[i], env |-> data]]

\* send that misses the connection added last.
sendSkipsNewest(conns, pr, channel, data) ==
    IF pr # NoPeer
    THEN broadcast(SubSeq(conns, 1, Len(conns) - 1),
                   [channel |-> channel, data |-> data, peer |-> HostId], 0)
    ELSE <<>>

send(conns, pr, channel, data) ==
    IF pr # NoPeer
    THEN broadcast(conns, [channel |-> channel, data |-> data, peer |-> HostId], 0)
    ELSE <<>>

\* Network.channel(name).send(data): wraps the payload and transmits it
\* through the role's send.
ChannelSend(conns, pr, channel, data) == send(conns, pr, channel, data)

\* Network.handleMessage: local dispatch of a received envelope to the
\* channel bus.
NetworkHandleMessage(c, data) == <<Emit("dispatch", data)>>

\* A relay that keeps the origin the sender wrote.
StampTrusting(data, c) == data

Stamp(data, c) == [data EXCEPT !.peer = cpeer[c]]

\* What identifies an envelope on the wire: its channel, the origin it is
\* stamped with and, for a join or leave envelope, the participant it is
\* about (data.peer).
EnvelopeHead(env) ==
    [channel |-> env.channel,
     peer |-> env.peer,
     about |-> IF env.channel \in {"join", "leave"} THEN <<env.data.peer>> ELSE <<>>]

\* What connection.send was first called with on each connection, once the
\* calls of one more handler are counted in.
FirstSent(fs, sn) ==
    [c \in Conns |->
        LET idx == {i \in 1..Len(sn) : sn[i].to = c}
        IN IF fs[c] # <<>> \/ idx = {} THEN fs[c]
           ELSE <<EnvelopeHead(sn[CHOOSE i \in idx : \A j \in idx : i <= j].env)>>]

TypeOK ==
    /\ status \in {"Disconnected", "Connecting", "Connected"}
    /\ peer \in Attempts \cup {NoPeer}
    /\ handleConnection \in {"unset", "set"}
    /\ SeqToSet(connections) \subseteq Conns
    /\ peerSt \in [Attempts -> {"none", "pending", "open", "dead"}]
    /\ promise \in [Attempts -> {"none", "pending", "resolved", "rejected"}]
    /\ everConnected \in [Attempts -> BOOLEAN]
    /\ cst \in [Conns -> {"none", "judging", "admitted", "rejected", "added", "removed"}]
    /\ copen \in [Conns -> {"none", "connecting", "open", "closed"}]
    /\ cpeer \in [Conns -> ClientIds \cup {NoPeer}]
    /\ verdict \in [Conns -> {"none", "admit", "reject"}]

NetInit ==
    /\ status = "Disconnected"
    /\ peer = NoPeer
    /\ metadata = NoMetadata
    /\ handleConnection = "unset"
    /\ connections = <<>>
    /\ peerSt = [a \in Attempts |-> "none"]
    /\ promise = [a \in Attempts |-> "none"]
    /\ everConnected = [a \in Attempts |-> FALSE]
    /\ cst = [c \in Conns |-> "none"]
    /\ copen = [c \in Conns |-> "none"]
    /\ cpeer = [c \in Conns |-> NoPeer]
    /\ verdict = [c \in Conns |-> "none"]
    /\ sent = <<>>
    /\ emitted = <<>>
    /\ last = Call("init", 0, 0, NoMsg)
    /\ firstSent = [c \in Conns |-> <<>>]


\* ------------------------------------------------------- ServerNetwork ops
\* The status the UI holds after a handler: the last status notification.
StatusAfter(st, em) ==
    LET idx == {i \in 1..Len(em) : em[i].ev = "status"}
    IN IF idx = {} THEN st
       ELSE em[CHOOSE i \in idx : \A j \in idx : j <= i].arg

\* peer.destroy(): the Peer of this.peer is gone, and so is every
\* DataConnection it carried.
destroyPeer(ps) == [a \in Attempts |-> IF a = peer THEN "dead" ELSE ps[a]]

destroyConnections ==
    [c \in Conns |->
        IF peer # NoPeer /\ copen[c] \in {"connecting", "open"}
        THEN "closed" ELSE copen[c]]

\* disconnect() without connections.clear().
disconnectKeepsConnections ==
    /\ copen' = destroyConnections
    /\ connections' = connections
    /\ peer' = NoPeer

\* disconnect(), but for the Peer states (the caller states them, a
\* connect() also creates one) and the notification (the caller lists it).
disconnect ==
    /\ copen' = destroyConnections
    /\ connections' = <<>>
    /\ peer' = NoPeer

Connect(a) ==
    /\ peerSt[a] = "none"
    /\ \A b \in Attempts : b < a => peerSt[b] # "none"
    /\ metadata' = HostMetadata(a)
    /\ disconnect
    /\ peerSt' = [destroyPeer(peerSt) EXCEPT ![a] = "pending"]
    /\ promise' = [promise EXCEPT ![a] = "pending"]
    /\ emitted' = <<Emit("status", "Disconnected"), Emit("status", "Connecting")>>
    /\ status' = StatusAfter(status, emitted')
    /\ sent' = <<>>
    /\ last' = Call("connect", 0, a, NoMsg)
    /\ UNCHANGED <<handleConnection, everConnected, cst, cpeer, verdict>>
    /\ firstSent' = FirstSent(firstSent, sent')
    /\ UNCHANGED <<gameVars, tankVars, chatVars, moreVars>>

Disconnect ==
    /\ disconnect
    /\ peerSt' = destroyPeer(peerSt)
    /\ emitted' = <<Emit("status", "Disconnected")>>
    /\ status' = StatusAfter(status, emitted')
    /\ sent' = <<>>
    /\ last' = Call("disconnect", 0, 0, NoMsg)
    /\ UNCHANGED <<metadata, handleConnection, promise, everConnected, cst, cpeer, verdict>>
    /\ firstSent' = FirstSent(firstSent, sent')
    /\ UNCHANGED <<gameVars, tankVars, chatVars, moreVars>>

SetHandleConnection ==
    /\ handleConnection = "unset"
    /\ handleConnection' = "set"
    /\ sent' = <<>>
    /\ emitted' = <<>>
    /\ last' = Call("setHandleConnection", 0, 0, NoMsg)
    /\ UNCHANGED <<status, peer, metadata, connections, peerSt, promise,
                   everConnected, cst, copen, cpeer, verdict>>
    /\ firstSent' = FirstSent(firstSent, sent')
    /\ UNCHANGED <<gameVars, tankVars, chatVars, moreVars>>

\* peer.once('open'): the signalling server grants this.id to one Peer at a
\* time.
PeerOpen(a) ==
    /\ peerSt[a] = "pending"
    /\ \A b \in Attempts : peerSt[b] # "open"
    /\ peerSt' = [peerSt EXCEPT ![a] = "open"]
    /\ peer' = a
    /\ everConnected' = [everConnected EXCEPT ![a] = TRUE]
    /\ promise' = [promise EXCEPT ![a] = IF @ = "pending" THEN "resolved" ELSE @]
    /\ emitted' = <<Emit("status", "Connected"),
                    Emit("peers", connectedPeers(connections, metadata, peer'))>>
    /\ status' = StatusAfter(status, emitted')
    /\ sent' = <<>>
    /\ last' = Call("peerOpen", 0, a, NoMsg)
    /\ UNCHANGED <<metadata, handleConnection, connections, cst, copen, cpeer, verdict>>
    /\ firstSent' = FirstSent(firstSent, sent')
    /\ UNCHANGED <<gameVars, tankVars, chatVars, moreVars>>

\* peer.once('disconnected'): an open Peer lost the signalling server.
PeerDisconnected(a) ==
    /\ peerSt[a] = "open"
    /\ disconnect
    /\ peerSt' = destroyPeer(peerSt)
    /\ emitted' = <<Emit("status", "Disconnected")>>
    /\ status' = StatusAfter(status, emitted')
    /\ sent' = <<>>
    /\ last' = Call("peerDisconnected", 0, a, NoMsg)
    /\ UNCHANGED <<metadata, handleConnection, promise, everConnected, cst, cpeer, verdict>>
    /\ firstSent' = FirstSent(firstSent, sent')
    /\ UNCHANGED <<gameVars, tankVars, chatVars, moreVars>>

\* peer.once('error'): a Peer that fails before it opens never opens.
PeerError(a) ==
    /\ peerSt[a] \in {"pending", "open"}
    /\ disconnect
    /\ peerSt' = [destroyPeer(peerSt) EXCEPT ![a] = "dead"]
    /\ promise' = [promise EXCEPT ![a] = IF @ = "pending" THEN "rejected" ELSE @]
    /\ emitted' = <<Emit("status", "Disconnected")>>
    /\ status' = StatusAfter(status, emitted')
    /\ sent' = <<>>
    /\ last' = Call(IF peerSt[a] = "pending" THEN "peerErrorBeforeOpen" ELSE "peerError",
                    0, a, NoMsg)
    /\ UNCHANGED <<metadata, handleConnection, everConnected, cst, cpeer, verdict>>
    /\ firstSent' = FirstSent(firstSent, sent')
    /\ UNCHANGED <<gameVars, tankVars, chatVars, moreVars>>


\* -------------------------------------------------- connection handlers
\* The open handler with the join envelope sent before the connection is
\* added to the set.
addConnectionJoinBeforeAdd(c) ==
    LET conns == SetAdd(connections, c)
        peers == connectedPeers(conns, metadata, peer)
    IN /\ connections' = conns
       /\ cst' = [cst EXCEPT ![c] = "added"]
       /\ emitted' = <<Emit("peers", peers), Emit("join", ConnMetadata(c))>>
       /\ sent' = ChannelSend(connections, peer, "join",
                              [peer |-> PeerDataOf(c), peers |-> peers])

\* The open handler registered by addConnection.
addConnectionOpened(c) ==
    LET conns == SetAdd(connections, c)
        peers == connectedPeers(conns, metadata, peer)
    IN /\ connections' = conns
       /\ cst' = [cst EXCEPT ![c] = "added"]
       /\ emitted' = <<Emit("peers", peers), Emit("join", ConnMetadata(c))>>
       /\ sent' = ChannelSend(conns, peer, "join",
                              [peer |-> PeerDataOf(c), peers |-> peers])

\* removeConnection that clears the whole set, as disconnect() does.
removeConnectionClearsAll(c) ==
    LET conns == <<>>
        peers == connectedPeers(conns, metadata, peer)
    IN /\ copen' = [copen EXCEPT ![c] = "closed"]
       /\ cst' = [cst EXCEPT ![c] = "removed"]
       /\ connections' = conns
       /\ emitted' = <<Emit("peers", peers), Emit("leave", ConnMetadata(c))>>
       /\ sent' = ChannelSend(conns, peer, "leave",
                              [peer |-> PeerDataOf(c), peers |-> peers])
       /\ UNCHANGED <<status, peer, metadata, handleConnection, peerSt, promise,
                      everConnected, cpeer, verdict>>

removeConnection(c) ==
    LET conns == SetDelete(connections, c)
        peers == connectedPeers(conns, metadata, peer)
    IN /\ copen' = [copen EXCEPT ![c] = "closed"]
       /\ cst' = [cst EXCEPT ![c] = "removed"]
       /\ connections' = conns
       /\ emitted' = <<Emit("peers", peers), Emit("leave", ConnMetadata(c))>>
       /\ sent' = ChannelSend(conns, peer, "leave",
                              [peer |-> PeerDataOf(c), peers |-> peers])
       /\ UNCHANGED <<status, peer, metadata, handleConnection, peerSt, promise,
                      everConnected, cpeer, verdict>>

handleMessage(c, data) ==
    /\ emitted' = NetworkHandleMessage(c, data)
    /\ sent' = broadcast(connections, Stamp(data, c), c)

\* peer.on('connection'): a candidate arrives at the open Peer.  With no
\* predicate the await resolves in the same turn and addConnection runs.
\* Connection objects and client identifiers are named in order of first
\* appearance (they are interchangeable).
ConnArrive(c, p) ==
    /\ \E a \in Attempts : peerSt[a] = "open"
    /\ cst[c] = "none"
    /\ \A d \in Conns : d < c => cst[d] # "none"
    /\ \A q \in ClientIds : q < p => \E d \in Conns : cpeer[d] = q
    /\ cpeer' = [cpeer EXCEPT ![c] = p]
    /\ copen' = [copen EXCEPT ![c] = "connecting"]
    /\ cst' = [cst EXCEPT ![c] = IF handleConnection = "unset"
                                  THEN "admitted" ELSE "judging"]
    /\ sent' = <<>>
    /\ emitted' = <<>>
    /\ last' = Call(IF handleConnection = "unset" THEN "arriveNoPredicate" ELSE "arrive",
                    c, 0, NoMsg)
    /\ verdict' = [verdict EXCEPT ![c] = IF handleConnection = "unset"
                                          THEN "admit" ELSE @]
    /\ UNCHANGED <<status, peer, metadata, handleConnection, connections, peerSt,
                   promise, everConnected>>
    /\ firstSent' = FirstSent(firstSent, sent')
    /\ UNCHANGED <<gameVars, tankVars, chatVars, moreVars>>

\* The predicate's answer arrives: addConnection(conn) or conn.close().
PredicateAdmits(c) ==
    /\ cst[c] = "judging"
    /\ verdict' = [verdict EXCEPT ![c] = "admit"]
    /\ cst' = [cst EXCEPT ![c] = "admitted"]
    /\ sent' = <<>>
    /\ emitted' = <<>>
    /\ last' = Call("admit", c, 0, NoMsg)
    /\ UNCHANGED <<status, peer, metadata, handleConnection, connections, peerSt,
                   promise, everConnected, copen, cpeer>>
    /\ firstSent' = FirstSent(firstSent, sent')
    /\ UNCHANGED <<gameVars, tankVars, chatVars, moreVars>>

\* A handler that calls addConnection whatever the predicate answered.
PredicateRejectsButAdds(c) ==
    /\ cst[c] = "judging"
    /\ verdict' = [verdict EXCEPT ![c] = "reject"]
    /\ cst' = [cst EXCEPT ![c] = "admitted"]
    /\ sent' = <<>>
    /\ emitted' = <<>>
    /\ last' = Call("reject", c, 0, NoMsg)
    /\ UNCHANGED <<status, peer, metadata, handleConnection, connections, peerSt,
                   promise, everConnected, copen, cpeer>>
    /\ firstSent' = FirstSent(firstSent, sent')
    /\ UNCHANGED <<gameVars, tankVars, chatVars, moreVars>>

PredicateRejects(c) ==
    /\ cst[c] = "judging"
    /\ verdict' = [verdict EXCEPT ![c] = "reject"]
    /\ cst' = [cst EXCEPT ![c] = "rejected"]
    /\ copen' = [copen EXCEPT ![c] = "closed"]
    /\ sent' = <<>>
    /\ emitted' = <<>>
    /\ last' = Call("reject", c, 0, NoMsg)
    /\ UNCHANGED <<status, peer, metadata, handleConnection, connections, peerSt,
                   promise, everConnected, cpeer>>
    /\ firstSent' = FirstSent(firstSent, sent')
    /\ UNCHANGED <<gameVars, tankVars, chatVars, moreVars>>

\* connection 'open' with the once('open') listener of addConnection on it.
ConnOpened(c) ==
    /\ copen[c] = "connecting"
    /\ cst[c] = "admitted"
    /\ copen' = [copen EXCEPT ![c] = "open"]
    /\ addConnectionOpened(c)
    /\ last' = Call("open", c, 0, NoMsg)
    /\ UNCHANGED <<status, peer, metadata, handleConnection, peerSt, promise,
                   everConnected, cpeer, verdict>>
    /\ firstSent' = FirstSent(firstSent, sent')
    /\ UNCHANGED <<gameVars, tankVars, chatVars, moreVars>>

\* connection 'open' while the predicate is still pending: nobody listens.
ConnOpenUnheard(c) ==
    /\ copen[c] = "connecting"
    /\ cst[c] = "judging"
    /\ copen' = [copen EXCEPT ![c] = "open"]
    /\ sent' = <<>>
    /\ emitted' = <<>>
    /\ last' = Call("openUnheard", c, 0, NoMsg)
    /\ UNCHANGED <<status, peer, metadata, handleConnection, connections, peerSt,
                   promise, everConnected, cst, cpeer, verdict>>
    /\ firstSent' = FirstSent(firstSent, sent')
    /\ UNCHANGED <<gameVars, tankVars, chatVars, moreVars>>

ConnData(c, data) ==
    /\ cst[c] = "added"
    /\ copen[c] = "open"
    /\ handleMessage(c, data)
    /\ last' = Call("data", c, 0, data)
    /\ UNCHANGED <<status, peer, metadata, handleConnection, connections, peerSt,
                   promise, everConnected, cst, copen, cpeer, verdict>>
    /\ firstSent' = FirstSent(firstSent, sent')
    /\ UNCHANGED <<gameVars, tankVars, chatVars, moreVars>>

\* What one data handler did, in program order: handleMessage runs the
\* local dispatch of Network.handleMessage, then broadcast.
HandlerTraceRelayFirst(em, sn, c) ==
    [i \in 1..Len(sn) |-> [kind |-> "send", conn |-> sn[i].to, from |-> c, env |-> sn[i].env]]
    \o [i \in 1..Len(em) |-> [kind |-> "dispatch", conn |-> c, from |-> c, env |-> em[i].arg]]

HandlerTrace(em, sn, c) ==
    [i \in 1..Len(em) |-> [kind |-> "dispatch", conn |-> c, from |-> c, env |-> em[i].arg]]
    \o [i \in 1..Len(sn) |-> [kind |-> "send", conn |-> sn[i].to, from |-> c, env |-> sn[i].env]]

\* The envelopes a client puts on its connection are numbered in the order
\* it sends them, and the connection delivers them in that order: the next
\* data event of connection c carries the number after the last one
\* handled.  The log keeps the first MaxRelayed data events.
Handled(c) == Count(relayLog, LAMBDA e : e.kind = "dispatch" /\ e.conn = c)

\* The data listener of addConnection, with what it did appended to the log.
RelayData(c, origin) ==
    LET data == [channel |-> "chat", data |-> Handled(c) + 1, peer |-> origin]
    IN /\ Count(relayLog, LAMBDA e : e.kind = "dispatch") < MaxRelayed
       /\ cst[c] = "added"
       /\ copen[c] = "open"
       /\ handleMessage(c, data)
       /\ last' = Call("data", c, 0, data)
       /\ relayLog' = relayLog \o HandlerTrace(emitted', sent', c)
       /\ UNCHANGED <<status, peer, metadata, handleConnection, connections, peerSt,
                      promise, everConnected, cst, copen, cpeer, verdict>>
       /\ firstSent' = FirstSent(firstSent, sent')
       /\ UNCHANGED <<gameVars, tankVars, chatVars, shootVars, loopVars, lateVars>>

\* connection 'close': the remote end closed it, or the Peer that carried
\* it was destroyed; the listeners of addConnection are still on it.
ConnClose(c) ==
    /\ cst[c] = "added"
    /\ copen[c] \in {"open", "closed"}
    /\ removeConnection(c)
    /\ last' = Call("close", c, 0, NoMsg)
    /\ firstSent' = FirstSent(firstSent, sent')
    /\ UNCHANGED <<gameVars, tankVars, chatVars, moreVars>>

ConnError(c) ==
    /\ cst[c] = "added"
    /\ copen[c] = "open"
    /\ removeConnection(c)
    /\ last' = Call("error", c, 0, NoMsg)
    /\ firstSent' = FirstSent(firstSent, sent')
    /\ UNCHANGED <<gameVars, tankVars, chatVars, moreVars>>

\* The application sends on a channel of its own.
HostSend(channel, data) ==
    /\ sent' = send(connections, peer, channel, data)
    /\ emitted' = <<>>
    /\ last' = Call("send", 0, 0, [channel |-> channel, data |-> data, peer |-> HostId])
    /\ UNCHANGED <<status, peer, metadata, handleConnection, connections, peerSt,
                   promise, everConnected, cst, copen, cpeer, verdict>>
    /\ firstSent' = FirstSent(firstSent, sent')
    /\ UNCHANGED <<gameVars, tankVars, chatVars, moreVars>>

NetNext ==
    \/ \E a \in Attempts : Connect(a)
    \/ Disconnect
    \/ SetHandleConnection
    \/ \E a \in Attempts : PeerOpen(a)
    \/ \E a \in Attempts : PeerDisconnected(a)
    \/ \E a \in Attempts : PeerError(a)
    \/ \E c \in Conns, p \in ClientIds : ConnArrive(c, p)
    \/ \E c \in Conns : PredicateAdmits(c)
    \/ \E c \in Conns : PredicateRejects(c)
    \/ \E c \in Conns : ConnOpened(c)
    \/ \E c \in Conns : ConnOpenUnheard(c)
    \/ \E c \in Conns, m \in Messages : ConnData(c, m)
    \/ \E c \in Conns : ConnClose(c)
    \/ \E c \in Conns : ConnError(c)
    \/ HostSend("chat", "a")

\* The host with its log of the data handlers, in one session (the first
\* connect()) with no admission predicate set.
RelayNext ==
    \/ Connect(1)
    \/ Disconnect
    \/ PeerOpen(1)
    \/ \E c \in Conns, p \in ClientIds : ConnArrive(c, p)
    \/ \E c \in Conns : ConnOpened(c)
    \/ \E c \in Conns : RelayData(c, HostId)
    \/ \E c \in Conns : ConnClose(c)
    \/ \E c \in Conns : ConnError(c)


\* ==================================================================== Game
\* The scene after create(): the player tank is in the collection, the
\* update listener is registered and the two loops run.  Time is Date.now(),
\* read at the instants around the multiples of the staleness timeout.
RemoteUuids == 1..NumRemotes
AllUuids == RemoteUuids \cup {LocalUuid}
SnapStates == {"s1", "s2"}
\* data.position of a received snapshot: an array of numbers, or no such key
\* (the payload is typed any and comes from another process).  Per uuid the
\* snapshots are two that differ in state and one with no position.
SnapPositions == {"array", "missing"}
Snapshots ==
    {data \in [uuid : AllUuids, state : SnapStates, position : SnapPositions] :
        data.position = "missing" => data.state = "s1"}
Deltas == 0..MaxDelta
Instants ==
    {x \in {k * StaleTimeout + j - Fine : k \in {0, 1}, j \in 0..(2 * Fine)} :
        x >= 0}

NoTank == [kind |-> "absent", lastUpdate |-> 0, state |-> "none"]
PlayerTank == [kind |-> "player", lastUpdate |-> 0, state |-> "local"]
GameCall(op, delta) == [op |-> op, delta |-> delta]
Manager(tk, nt, ev) == [tanks |-> tk, networkTanks |-> nt, events |-> ev]

\* TankNetwork.networkUpdate(data): imports the snapshot and notes the time.
networkUpdate(tank, data, t) == [tank EXCEPT !.state = data.state, !.lastUpdate = t]

\* new TankNetwork(game, position, uuid)
NewTankNetwork(t) == [kind |-> "network", lastUpdate |-> t, state |-> "none"]

\* set(uuid, tank) as the scene calls it, through add(tank): uuid is the
\* uuid of the tank.
TankManagerSet(m, uuid, tank) ==
    IF m.tanks[uuid].kind # "absent"
    THEN m
    ELSE Manager([m.tanks EXCEPT ![uuid] = tank],
                 IF tank.kind = "network" THEN m.networkTanks \cup {uuid}
                                          ELSE m.networkTanks,
                 Append(m.events, [ev |-> "add", uuid |-> uuid, tank |-> tank]))

TankManagerDelete(m, uuid) ==
    Manager([m.tanks EXCEPT ![uuid] = NoTank],
            m.networkTanks \ {uuid},
            IF m.tanks[uuid].kind # "absent"
            THEN Append(m.events,
                        [ev |-> "remove", uuid |-> uuid, tank |-> m.tanks[uuid]])
            ELSE m.events)

\* The staleness test of Game.update with the comparison turned round.
StaleReversed(lastUpdate, delta, t) == lastUpdate + (StaleTimeout + delta) > t

\* The staleness test of Game.update, non-strict.
StaleAtTimeout(lastUpdate, delta, t) == lastUpdate + (StaleTimeout + delta) <= t

\* entity.getLastUpdate() + (5000 + delta) < Date.now()
Stale(lastUpdate, delta, t) == lastUpdate + (StaleTimeout + delta) < t

GameInit ==
    /\ now = 0
    /\ tanks = [u \in AllUuids |-> IF u = LocalUuid THEN PlayerTank ELSE NoTank]
    /\ networkTanks = {}
    /\ buffer = <<>>
    /\ loopAlive = TRUE
    /\ gSent = <<>>
    /\ gEvents = <<>>
    /\ gLast = GameCall("init", 0)

AdvanceClock(t) ==
    /\ t > now
    /\ now' = t
    /\ gSent' = <<>>
    /\ gEvents' = <<>>
    /\ gLast' = GameCall("clock", 0)
    /\ UNCHANGED <<tanks, networkTanks, buffer, loopAlive>>
    /\ UNCHANGED <<netVars, tankVars, chatVars, moreVars>>

\* Map.set on the pending buffer: a known key keeps its place.
BufferSet(b, data) ==
    IF \E i \in 1..Len(b) : b[i].uuid = data.uuid
    THEN [i \in 1..Len(b) |-> IF b[i].uuid = data.uuid THEN data ELSE b[i]]
    ELSE Append(b, data)

\* The listener of the update channel.
ReceiveUpdate(data) ==
    /\ buffer' = IF tanks[LocalUuid].kind # "player" \/ data.uuid = LocalUuid
                 THEN buffer
                 ELSE BufferSet(buffer, data)
    /\ gSent' = <<>>
    /\ gEvents' = <<>>
    /\ gLast' = GameCall("receive", 0)
    /\ UNCHANGED <<now, tanks, networkTanks, loopAlive>>
    /\ UNCHANGED <<netVars, tankVars, chatVars, moreVars>>

\* A leave envelope is dispatched: create() registers listeners for
\* tank:shoot, tank:honk, tank:hit, explosion:create, sync:time and update,
\* and none for leave, whoever left.
ReceiveLeave ==
    /\ gSent' = <<>>
    /\ gEvents' = <<>>
    /\ gLast' = GameCall("leave", 0)
    /\ UNCHANGED <<now, tanks, networkTanks, buffer, loopAlive>>
    /\ UNCHANGED <<netVars, tankVars, chatVars, moreVars>>

\* new THREE.Vector3().fromArray(data.position) reads data.position[0]: with
\* no position in the snapshot it throws a TypeError.  It runs only for a
\* uuid with no proxy.
Throws(m, data) == data.uuid \notin m.networkTanks /\ data.position = "missing"

\* One buffered snapshot in the 100 ms loop.
ApplySnapshot(m, data, t) ==
    IF data.uuid \in m.networkTanks
    THEN Manager([m.tanks EXCEPT ![data.uuid] = networkUpdate(@, data, t)],
                 m.networkTanks, m.events)
    ELSE LET added == TankManagerSet(m, data.uuid, NewTankNetwork(t))
         IN IF data.uuid \in added.networkTanks
            THEN Manager([added.tanks EXCEPT ![data.uuid] = networkUpdate(@, data, t)],
                         added.networkTanks, added.events)
            ELSE added

\* tanks.forEach of the loop: in insertion order, up to the first throw.
RECURSIVE ApplyBuffer(_, _, _)
ApplyBuffer(m, b, t) ==
    IF b = <<>> \/ Throws(m, Head(b)) THEN m
    ELSE ApplyBuffer(ApplySnapshot(m, Head(b), t), Tail(b), t)

RECURSIVE BufferThrows(_, _, _)
BufferThrows(m, b, t) ==
    IF b = <<>> THEN FALSE
    ELSE IF Throws(m, Head(b)) THEN TRUE
    ELSE BufferThrows(ApplySnapshot(m, Head(b), t), Tail(b), t)

\* The 100 ms loop of create(): sends the local snapshot, applies the
\* buffer, clears it.  asyncLoop schedules the next run after the callback
\* resolved: a callback that throws is not run again.
ReplicationTick ==
    LET start == Manager(tanks, networkTanks, <<>>)
        m == ApplyBuffer(start, buffer, now)
        threw == BufferThrows(start, buffer, now)
    IN /\ loopAlive
       /\ tanks' = m.tanks
       /\ networkTanks' = m.networkTanks
       /\ gEvents' = m.events
       /\ gSent' = <<"update">>
       /\ buffer' = IF threw THEN buffer ELSE <<>>
       /\ loopAlive' = ~threw
       /\ gLast' = GameCall(IF threw THEN "tickThrew" ELSE "tick", 0)
       /\ UNCHANGED now
       /\ UNCHANGED <<netVars, tankVars, chatVars, moreVars>>

\* Game.update(_time, delta): tanks.forEach removes the stale proxies.
RECURSIVE EvictStale(_, _, _, _)
EvictStale(m, todo, delta, t) ==
    IF todo = {} THEN m
    ELSE LET u == CHOOSE x \in todo : \A y \in todo : x <= y
             tank == m.tanks[u]
         IN EvictStale(IF tank.kind = "network" /\ Stale(tank.lastUpdate, delta, t)
                       THEN TankManagerDelete(m, u) ELSE m,
                       todo \ {u}, delta, t)

GameUpdate(delta) ==
    LET present == {u \in DOMAIN tanks : tanks[u].kind # "absent"}
        m == EvictStale(Manager(tanks, networkTanks, <<>>), present, delta, now)
    IN /\ tanks' = m.tanks
       /\ networkTanks' = m.networkTanks
       /\ gEvents' = m.events
       /\ gSent' = <<>>
       /\ gLast' = GameCall("update", delta)
       /\ UNCHANGED <<now, buffer, loopAlive>>
       /\ UNCHANGED <<netVars, tankVars, chatVars, moreVars>>

Steps == \E delta \in Deltas : GameUpdate(delta)
Clock == \E t \in Instants : AdvanceClock(t)

GameNext ==
    \/ Clock
    \/ \E data \in Snapshots : ReceiveUpdate(data)
    \/ ReceiveLeave
    \/ ReplicationTick
    \/ Steps

\* ==================================================================== Tank
\* The property bag of one tank.  Tank.ts registers the properties; the bag
\* itself (Properties: addProperty, the value accessor, export, import) is
\* taken from section 4.3 of the design.  The model keeps five of the
\* eleven properties: one with an onChange (headlights), one without
\* (pseudo), the two backed by a getter with export/import conversions
\* (position, rotation) and the one with a set transform (health).
Registered == <<"headlights", "pseudo", "position", "rotation", "health">>
Delegated == {"position", "rotation"}
ImportKeys == Registered \o <<"uuid">>

\* THREE.Vector3 and THREE.Quaternion are objects: ref tells which one.
\* The getters return the chassis' own objects.
Vector3(ref, a) == [ref |-> ref, x |-> a[1], y |-> a[2], z |-> a[3]]
Quaternion(ref, a) == [ref |-> ref, x |-> a[1], y |-> a[2], z |-> a[3], w |-> a[4]]
Vector3ToArray(v) == <<v.x, v.y, v.z>>
QuaternionToArray(q) == <<q.x, q.y, q.z, q.w>>
\* new THREE.Vector3().fromArray(data), new THREE.Quaternion().fromArray(data)
Vector3FromArray(a) == Vector3("fresh", a)
QuaternionFromArray(a) == Quaternion("fresh", a)

PositionArrays == {<<0, 1, 0>>, <<2, 1, 0>>}
RotationArrays == {<<0, 1, 0, 0>>, <<0, 0, 0, 1>>}
HealthWrites == {-30, -10, 50, 130}
Damages == {10, 60}

\* set of health that bounds the value from above only.
ClampNoFloor(value) == IF value > 100 THEN 100 ELSE value

\* set: value => Math.min(Math.max(value, 0), 100)
Clamp(value) ==
    LET lower == IF value > 0 THEN value ELSE 0
    IN IF lower < 100 THEN lower ELSE 100

PropSet(key, value) == IF key = "health" THEN Clamp(value) ELSE value

PropExport(key, value) ==
    IF key = "position" THEN Vector3ToArray(value)
    ELSE IF key = "rotation" THEN QuaternionToArray(value)
    ELSE value

PropImport(key, raw) ==
    IF key = "position" THEN Vector3FromArray(raw)
    ELSE IF key = "rotation" THEN QuaternionFromArray(raw)
    ELSE raw

\* onChange of health: if (health <= 0 && oldHealth > 0) this.die()
Dies(key, value, old) == IF key = "health" /\ value <= 0 /\ old > 0 THEN 1 ELSE 0

BagState(values, notes, d) == [values |-> values, fired |-> notes, dies |-> d]
Note(ev, key, value, old) == [ev |-> ev, key |-> key, new |-> value, old |-> old]

\* property.value = x: the set transform, the comparison with the value
\* read before, and, if it differs, the commit (a property backed by a
\* getter alone has no setter to commit through: a read still gives the
\* owner's object), onChange(new, old), then the change event of the bag.
PropertyWrite(st, key, x) ==
    LET value == PropSet(key, x)
        old == st.values[key]
    IN IF value = old THEN st
       ELSE BagState(IF key \in Delegated THEN st.values
                     ELSE [st.values EXCEPT ![key] = value],
                     st.fired \o <<Note("onChange", key, value, old),
                                   Note("change", key, value, old)>>,
                     st.dies + Dies(key, value, old))

\* export(): every registered property, through its export if it has one.
PropertiesExport(values) ==
    [key \in SeqToSet(Registered) |-> {PropExport(key, values[key])}]

\* Tank.export(): {uuid: this.uuid, ...this.properties.export()}
TankExport(values) ==
    [key \in SeqToSet(ImportKeys) |->
        IF key = "uuid" THEN {LocalUuid} ELSE PropertiesExport(values)[key]]

\* import(partial): a partial record gives, for a key, the set of its
\* value ({} when the key is not in it).  Keys present and registered are
\* written through the write path; the others are skipped.
RECURSIVE PropertiesImport(_, _, _)
PropertiesImport(st, partial, keys) ==
    IF keys = <<>> THEN st
    ELSE LET key == Head(keys)
             next == IF partial[key] = {} \/ key \notin SeqToSet(Registered)
                     THEN st
                     ELSE PropertyWrite(st, key,
                              PropImport(key, CHOOSE raw \in partial[key] : TRUE))
         IN PropertiesImport(next, partial, Tail(keys))

\* The partial records imported: at most MaxKeys keys each.
Partials ==
    {partial \in [headlights : {{}, {FALSE}},
                  pseudo : {{}, {"p1"}},
                  position : {{}, {<<2, 1, 0>>}},
                  rotation : {{}, {<<0, 0, 0, 1>>}},
                  health : {{}, {50}, {-30}},
                  uuid : {{}, {1}}] :
        Cardinality({key \in SeqToSet(ImportKeys) : partial[key] # {}}) <= MaxKeys}

TankCall(op, arg) == [op |-> op, arg |-> arg]
NoPartial == [key \in SeqToSet(ImportKeys) |-> {}]

TankInit ==
    /\ bag = [headlights |-> TRUE,
              pseudo |-> "Player",
              position |-> Vector3("chassis", <<0, 1, 0>>),
              rotation |-> Quaternion("chassis", <<0, 1, 0, 0>>),
              health |-> 100]
    /\ fired = <<>>
    /\ dies = 0
    /\ tLast = TankCall("init", NoPartial)

Commit(st) ==
    /\ bag' = st.values
    /\ fired' = st.fired
    /\ dies' = st.dies

\* tank.health = x
SetHealth(x) ==
    /\ Commit(PropertyWrite(BagState(bag, <<>>, 0), "health", x))
    /\ tLast' = TankCall("setHealth", [NoPartial EXCEPT !.health = {x}])
    /\ UNCHANGED <<netVars, gameVars, chatVars, moreVars>>

\* Tank.hit(damage): getProperty('health').value -= damage
Hit(damage) ==
    /\ Commit(PropertyWrite(BagState(bag, <<>>, 0), "health", bag.health - damage))
    /\ tLast' = TankCall("hit", [NoPartial EXCEPT !.health = {bag.health - damage}])
    /\ UNCHANGED <<netVars, gameVars, chatVars, moreVars>>

\* Tank.toggleHeadlights()
ToggleHeadlights ==
    /\ Commit(PropertyWrite(BagState(bag, <<>>, 0), "headlights", ~bag.headlights))
    /\ tLast' = TankCall("toggleHeadlights", NoPartial)
    /\ UNCHANGED <<netVars, gameVars, chatVars, moreVars>>

\* The record with every registered key absent from it set to the raw form
\* of the default of the property.
Completed(partial) ==
    [key \in SeqToSet(ImportKeys) |->
        IF partial[key] # {} \/ key \notin SeqToSet(Registered) THEN partial[key]
        ELSE IF key = "headlights" THEN {TRUE}
        ELSE IF key = "pseudo" THEN {"Player"}
        ELSE IF key = "health" THEN {100}
        ELSE {PropExport(key, bag[key])}]

\* Tank.import as a full replace: the keys the record lacks take their
\* defaults.
ImportReplaces(partial) ==
    /\ Commit(PropertiesImport(BagState(bag, <<>>, 0), Completed(partial), ImportKeys))
    /\ tLast' = TankCall("import", partial)
    /\ UNCHANGED <<netVars, gameVars, chatVars, moreVars>>

\* Tank.import(state)
Import(partial) ==
    /\ Commit(PropertiesImport(BagState(bag, <<>>, 0), partial, ImportKeys))
    /\ tLast' = TankCall("import", partial)
    /\ UNCHANGED <<netVars, gameVars, chatVars, moreVars>>

\* tank.import(tank.export())
ImportExport ==
    /\ Commit(PropertiesImport(BagState(bag, <<>>, 0), TankExport(bag), ImportKeys))
    /\ tLast' = TankCall("importExport", TankExport(bag))
    /\ UNCHANGED <<netVars, gameVars, chatVars, moreVars>>

\* The physics engine moves the chassis: its position and quaternion
\* objects take new coordinates, and the bag is not told.
Physics(a, q) ==
    /\ bag' = [bag EXCEPT !.position = Vector3("chassis", a),
                          !.rotation = Quaternion("chassis", q)]
    /\ fired' = <<>>
    /\ dies' = 0
    /\ tLast' = TankCall("physics", NoPartial)
    /\ UNCHANGED <<netVars, gameVars, chatVars, moreVars>>

TankNext ==
    \/ \E x \in HealthWrites : SetHealth(x)
    \/ \E damage \in Damages : Hit(damage)
    \/ ToggleHeadlights
    \/ \E partial \in Partials : Import(partial)
    \/ ImportExport
    \/ \E a \in PositionArrays, q \in RotationArrays : Physics(a, q)

\* ==================================================================== Chat
\* The chat box of the UI (ChatUi) against the network of the store.  Time
\* is Date.now(), read around the multiples of the rate limit; the page is
\* mounted at a Date.now() of at least the rate limit (lastMessageTime
\* starts at 0).
ChatInstants ==
    {x \in {RateLimit * k + j : k \in 1..(MaxChatPeriods + 1), j \in {-1, 0, 1}} :
        x >= RateLimit}

\* Texts of the input box, as sequences of characters: empty, padded with
\* blanks, and longer than the limit.
Texts == {<<>>, <<" ", "a", " ">>, [i \in 1..(MessageLimit + 1) |-> "b"]}

RECURSIVE TrimStart(_)
TrimStart(text) ==
    IF text # <<>> /\ Head(text) = " " THEN TrimStart(Tail(text)) ELSE text

RECURSIVE TrimEnd(_)
TrimEnd(text) ==
    IF text # <<>> /\ text[Len(text)] = " "
    THEN TrimEnd(SubSeq(text, 1, Len(text) - 1)) ELSE text

\* message.trim() with no slice.
TrimOnly(text) == TrimEnd(TrimStart(text))

\* message.trim().slice(0, 100)
TrimSlice(text) ==
    LET trimmed == TrimEnd(TrimStart(text))
    IN SubSeq(trimmed, 1, IF Len(trimmed) < MessageLimit THEN Len(trimmed)
                          ELSE MessageLimit)

\* date.toISOString() and new Date(data.date): to the millisecond both ways.
ToISOString(t) == <<"iso", t>>
DateOf(iso) == iso[2]

ChatMessage(from, text, date) == [from |-> from, message |-> text, date |-> date]
ChatCall(op, text) == [op |-> op, text |-> text]

\* Array.prototype.sort with (a, b) => b.date - a.date: stable, latest first.
RECURSIVE SortByDateDesc(_)
SortByDateDesc(list) ==
    IF list = <<>> THEN <<>>
    ELSE LET m == list[Len(list)]
             rest == SortByDateDesc(SubSeq(list, 1, Len(list) - 1))
             before == SelectSeq(rest, LAMBDA e : e.date >= m.date)
             after == SelectSeq(rest, LAMBDA e : e.date < m.date)
         IN before \o <<m>> \o after

\* slice(-50): the last 50 elements.
SliceLast(list) ==
    IF Len(list) <= MaxKept THEN list
    ELSE SubSeq(list, Len(list) - MaxKept + 1, Len(list))

\* addMessage(message)
addMessage(list, m) == SliceLast(SortByDateDesc(Append(list, m)))

ChatInit ==
    /\ chatNow = RateLimit
    /\ lastMessageTime = 0
    /\ messages = <<>>
    /\ inputValue = <<>>
    /\ chatSent = <<>>
    /\ chatLast = ChatCall("init", <<>>)

ChatClock(t) ==
    /\ t > chatNow
    /\ chatNow' = t
    /\ chatSent' = <<>>
    /\ chatLast' = ChatCall("clock", <<>>)
    /\ UNCHANGED <<lastMessageTime, messages, inputValue>>
    /\ UNCHANGED <<netVars, gameVars, tankVars, moreVars>>

\* The user types in the input box.
Type(text) ==
    /\ text # inputValue
    /\ inputValue' = text
    /\ chatSent' = <<>>
    /\ chatLast' = ChatCall("type", text)
    /\ UNCHANGED <<chatNow, lastMessageTime, messages>>
    /\ UNCHANGED <<netVars, gameVars, tankVars, moreVars>>

\* handleSubmit with send inlined; hasPeerData is what network.getPeerData()
\* gives (the network has its metadata and its peer, or not).
Submit(hasPeerData) ==
    LET limited == chatNow - lastMessageTime < RateLimit
        sends == ~limited /\ inputValue # <<>> /\ hasPeerData
        text == TrimSlice(inputValue)
    IN /\ chatSent' = IF sends
                      THEN <<[channel |-> "chat",
                              data |-> [message |-> text, date |-> ToISOString(chatNow)]]>>
                      ELSE <<>>
       /\ messages' = IF sends
                      THEN addMessage(messages, ChatMessage("local", text, chatNow))
                      ELSE messages
       /\ lastMessageTime' = IF sends THEN chatNow ELSE lastMessageTime
       /\ inputValue' = IF limited THEN inputValue ELSE <<>>
       /\ chatLast' = ChatCall(IF limited THEN "submitLimited"
                               ELSE IF sends THEN "submitSent" ELSE "submitNothing",
                               inputValue)
       /\ UNCHANGED chatNow
       /\ UNCHANGED <<netVars, gameVars, tankVars, moreVars>>

\* The listener of the chat channel: a message of another participant.
ChatReceive(text, iso) ==
    /\ messages' = addMessage(messages, ChatMessage("remote", text, DateOf(iso)))
    /\ chatSent' = <<>>
    /\ chatLast' = ChatCall("receive", text)
    /\ UNCHANGED <<chatNow, lastMessageTime, inputValue>>
    /\ UNCHANGED <<netVars, gameVars, tankVars, moreVars>>

ChatNext ==
    \/ \E t \in ChatInstants : ChatClock(t)
    \/ \E text \in Texts : Type(text)
    \/ \E hasPeerData \in BOOLEAN : Submit(hasPeerData)
    \/ ChatReceive(<<"a">>, ToISOString(0))

\* ================================================================= shooting
\* TankPlayer.shoot over Tank.shoot.  Time is Date.now(), read around the
\* multiples of the delay between shots; the tank is made at a Date.now() of
\* at least that delay (lastShot starts at 0).
ShootInstants ==
    {x \in {ShootDelay * k + j : k \in 1..(MaxShootPeriods + 1), j \in {-1, 0, 1}} :
        x >= ShootDelay}

ShootCall(op, returned) == [op |-> op, returned |-> returned]

\* The test of Tank.shoot without isDead().
CanShootDead(shot, t, dead) == ~(shot + ShootDelay > t)

\* if (this.lastShot + 750 > Date.now() || this.isDead()) return false
CanShoot(shot, t, dead) == ~(shot + ShootDelay > t \/ dead)

ShootInit ==
    /\ shootNow = ShootDelay
    /\ lastShot = 0
    /\ shooterDead = FALSE
    /\ shootSent = <<>>
    /\ shootTimes = <<>>
    /\ shootLast = ShootCall("init", FALSE)

ShootClock(t) ==
    /\ t > shootNow
    /\ shootNow' = t
    /\ shootSent' = <<>>
    /\ shootLast' = ShootCall("clock", FALSE)
    /\ UNCHANGED <<lastShot, shooterDead, shootTimes>>
    /\ UNCHANGED <<netVars, gameVars, tankVars, chatVars, relayVars, loopVars, lateVars>>

\* health reaches 0 (a hit, an import).
ShooterDies ==
    /\ ~shooterDead
    /\ shooterDead' = TRUE
    /\ shootSent' = <<>>
    /\ shootLast' = ShootCall("die", FALSE)
    /\ UNCHANGED <<shootNow, lastShot, shootTimes>>
    /\ UNCHANGED <<netVars, gameVars, tankVars, chatVars, relayVars, loopVars, lateVars>>

\* TankPlayer.shoot(): super.shoot(), and the event if it returned true.
Shoot ==
    LET hadShoot == CanShoot(lastShot, shootNow, shooterDead)
    IN /\ lastShot' = IF hadShoot THEN shootNow ELSE lastShot
       /\ shootSent' = IF hadShoot
                       THEN <<[event |-> "tank:shoot", data |-> LocalUuid]>>
                       ELSE <<>>
       /\ shootTimes' = IF hadShoot THEN Append(shootTimes, shootNow) ELSE shootTimes
       /\ shootLast' = ShootCall("shoot", hadShoot)
       /\ UNCHANGED <<shootNow, shooterDead>>
       /\ UNCHANGED <<netVars, gameVars, tankVars, chatVars, relayVars, loopVars, lateVars>>

ShootNext ==
    \/ \E t \in ShootInstants : ShootClock(t)
    \/ ShooterDies
    \/ Shoot

\* ================================================================ asyncLoop
\* asyncLoop(callback, minInterval) with the interval of the update loop.
\* Time is Date.now() on a grid of half intervals, so that a callback takes
\* less than, exactly, or more than the interval.
LoopInstants == {HalfInterval * k : k \in 0..(2 * (MaxLoopPeriods + 1))}

\* A timer that waits the full interval whatever the callback took.
IntervalFixed(start, end) == MinInterval

\* Math.max(minInterval - (end - start), 0)
Interval(start, end) ==
    IF MinInterval - (end - start) > 0 THEN MinInterval - (end - start) ELSE 0

\* void loop(): the first tick starts at once.
LoopInit ==
    /\ loopNow = 0
    /\ loopPhase = "running"
    /\ loopStart = 0
    /\ loopPrevStart = 0
    /\ loopDelay = 0
    /\ loopDue = 0
    /\ loopActive = 1
    /\ loopLast = "init"

LoopClock(t) ==
    /\ t > loopNow
    /\ loopNow' = t
    /\ loopLast' = "clock"
    /\ UNCHANGED <<loopPhase, loopStart, loopPrevStart, loopDelay, loopDue, loopActive>>
    /\ UNCHANGED <<netVars, gameVars, tankVars, chatVars, relayVars, shootVars, lateVars>>

\* await callback() resolves: end, interval, setTimeout(loop, interval).
CallbackResolves ==
    /\ loopPhase = "running"
    /\ loopPhase' = "waiting"
    /\ loopActive' = loopActive - 1
    /\ loopDelay' = Interval(loopStart, loopNow)
    /\ loopDue' = loopNow + loopDelay'
    /\ loopLast' = "resolves"
    /\ UNCHANGED <<loopNow, loopStart, loopPrevStart>>
    /\ UNCHANGED <<netVars, gameVars, tankVars, chatVars, relayVars, shootVars, lateVars>>

\* await callback() rejects: loop ends there and no timer is set.
CallbackRejects ==
    /\ loopPhase = "running"
    /\ loopPhase' = "stopped"
    /\ loopActive' = loopActive - 1
    /\ loopLast' = "rejects"
    /\ UNCHANGED <<loopNow, loopStart, loopPrevStart, loopDelay, loopDue>>
    /\ UNCHANGED <<netVars, gameVars, tankVars, chatVars, relayVars, shootVars, lateVars>>

\* The timer fires, at its due time or later: the next tick starts.
TimerFires ==
    /\ loopPhase = "waiting"
    /\ loopNow >= loopDue
    /\ loopPhase' = "running"
    /\ loopActive' = loopActive + 1
    /\ loopPrevStart' = loopStart
    /\ loopStart' = loopNow
    /\ loopLast' = "fires"
    /\ UNCHANGED <<loopNow, loopDelay, loopDue>>
    /\ UNCHANGED <<netVars, gameVars, tankVars, chatVars, relayVars, shootVars, lateVars>>

LoopNext ==
    \/ \E t \in LoopInstants : LoopClock(t)
    \/ CallbackResolves
    \/ CallbackRejects
    \/ TimerFires

\* ------------------------------------------------------------------ steering
\* PlayerController.update, the steering part.  steering is kept in
\* hundredths: steeringIncrement 0.04 is 4, its half 2, steeringClamp 0.5 is
\* 50.  (The sums of the doubles differ from these by rounding errors far
\* below a hundredth, which no comparison of update() can see: the values
\* compared with the clamp are 0.04 k for k up to 13, none near 0.5.)
Abs(x) == IF x < 0 THEN -x ELSE x

\* Updates of the else branch that bring any steering update() can leave
\* to 0: two hundredths at a time, from the clamp and one increment more.
SettleSteps == (SteeringClamp + SteeringIncrement) \div (SteeringIncrement \div 2)

TurnLeft(s) == IF s < SteeringClamp THEN s + SteeringIncrement ELSE s
TurnRight(s) == IF s > -SteeringClamp THEN s - SteeringIncrement ELSE s

\* The else branch: three ifs, one after the other.
Recentre(s) ==
    LET s1 == IF s > 0 THEN s - SteeringIncrement \div 2 ELSE s
        s2 == IF s1 < 0 THEN s1 + SteeringIncrement \div 2 ELSE s1
    IN IF Abs(s2) <= SteeringIncrement THEN 0 ELSE s2

\* turnLeft is looked at first, turnRight only when turnLeft is not held.
Steer(s, left, right) ==
    IF left THEN TurnLeft(s)
    ELSE IF right THEN TurnRight(s)
    ELSE Recentre(s)

SteerInit ==
    /\ steering = 0
    /\ steerKeys = [left |-> FALSE, right |-> FALSE]
    /\ steerIdle = 0

\* One update() with the tank set and the given keys held.
ControllerUpdate(left, right) ==
    /\ steering' = Steer(steering, left, right)
    /\ steerKeys' = [left |-> left, right |-> right]
    /\ steerIdle' = IF left \/ right THEN 0
                    ELSE IF steerIdle < MaxIdle THEN steerIdle + 1 ELSE steerIdle
    /\ UNCHANGED <<netVars, gameVars, tankVars, chatVars, relayVars, shootVars,
                   loopVars, managerVars, respawnVars>>

SteerNext == \E left, right \in BOOLEAN : ControllerUpdate(left, right)

\* -------------------------------------------------------------- TankManager
\* The class by itself.  A tank object has an identity, a uuid and a class
\* that never change: object 1 is a TankPlayer with the local uuid, and
\* every remote uuid has two TankNetwork objects (a proxy, and one built
\* for the same uuid at another time).
NoObject == 0
TankObjects == 1..(1 + 2 * NumRemotes)
ObjectUuid(o) == IF o = 1 THEN LocalUuid ELSE (o \div 2)
IsTankNetwork(o) == o # 1
ManagerCall(op, uuid, tank) == [op |-> op, uuid |-> uuid, tank |-> tank]
Stored(tk) == {tk[u] : u \in DOMAIN tk} \ {NoObject}

\* set(uuid, tank)
MapSet(tk, nt, uuid, tank) ==
    IF tk[uuid] # NoObject
    THEN [tanks |-> tk, networkTanks |-> nt, events |-> <<>>]
    ELSE [tanks |-> [tk EXCEPT ![uuid] = tank],
          networkTanks |-> IF IsTankNetwork(tank)
                           THEN [nt EXCEPT ![ObjectUuid(tank)] = tank] ELSE nt,
          events |-> <<[ev |-> "add", tanks |-> {tank}]>>]

\* delete(uuid)
MapDelete(tk, nt, uuid) ==
    [tanks |-> [tk EXCEPT ![uuid] = NoObject],
     networkTanks |-> [nt EXCEPT ![uuid] = NoObject],
     events |-> IF tk[uuid] # NoObject
                THEN <<[ev |-> "remove", tanks |-> {tk[uuid]}]>>
                ELSE <<>>]

ManagerInit ==
    /\ mgrTanks = [u \in AllUuids |-> NoObject]
    /\ mgrNetwork = [u \in AllUuids |-> NoObject]
    /\ mgrEvents = <<>>
    /\ mgrLast = ManagerCall("new", LocalUuid, NoObject)

ManagerSet(uuid, tank) ==
    LET m == MapSet(mgrTanks, mgrNetwork, uuid, tank)
    IN /\ mgrTanks' = m.tanks
       /\ mgrNetwork' = m.networkTanks
       /\ mgrEvents' = m.events
       /\ mgrLast' = ManagerCall("set", uuid, tank)
       /\ UNCHANGED <<netVars, gameVars, tankVars, chatVars, relayVars, shootVars,
                      loopVars, steerVars, respawnVars>>

\* add(tank): set(tank.uuid, tank)
ManagerAdd(tank) ==
    LET m == MapSet(mgrTanks, mgrNetwork, ObjectUuid(tank), tank)
    IN /\ mgrTanks' = m.tanks
       /\ mgrNetwork' = m.networkTanks
       /\ mgrEvents' = m.events
       /\ mgrLast' = ManagerCall("add", ObjectUuid(tank), tank)
       /\ UNCHANGED <<netVars, gameVars, tankVars, chatVars, relayVars, shootVars,
                      loopVars, steerVars, respawnVars>>

ManagerDelete(uuid) ==
    LET m == MapDelete(mgrTanks, mgrNetwork, uuid)
    IN /\ mgrTanks' = m.tanks
       /\ mgrNetwork' = m.networkTanks
       /\ mgrEvents' = m.events
       /\ mgrLast' = ManagerCall("delete", uuid, NoObject)
       /\ UNCHANGED <<netVars, gameVars, tankVars, chatVars, relayVars, shootVars,
                      loopVars, steerVars, respawnVars>>

\* remove(tank): delete(tank.uuid)
ManagerRemove(tank) ==
    LET m == MapDelete(mgrTanks, mgrNetwork, ObjectUuid(tank))
    IN /\ mgrTanks' = m.tanks
       /\ mgrNetwork' = m.networkTanks
       /\ mgrEvents' = m.events
       /\ mgrLast' = ManagerCall("remove", ObjectUuid(tank), tank)
       /\ UNCHANGED <<netVars, gameVars, tankVars, chatVars, relayVars, shootVars,
                      loopVars, steerVars, respawnVars>>

\* clear(): one remove notification with this.array, even when it is empty.
ManagerClear ==
    /\ mgrEvents' = <<[ev |-> "remove", tanks |-> Stored(mgrTanks)]>>
    /\ mgrNetwork' = [u \in AllUuids |-> NoObject]
    /\ mgrTanks' = [u \in AllUuids |-> NoObject]
    /\ mgrLast' = ManagerCall("clear", LocalUuid, NoObject)
    /\ UNCHANGED <<netVars, gameVars, tankVars, chatVars, relayVars, shootVars,
                   loopVars, steerVars, respawnVars>>

ManagerNext ==
    \/ \E u \in AllUuids, o \in TankObjects : ManagerSet(u, o)
    \/ \E o \in TankObjects : ManagerAdd(o)
    \/ \E u \in AllUuids : ManagerDelete(u)
    \/ \E o \in TankObjects : ManagerRemove(o)
    \/ ManagerClear

\* ------------------------------------------------------------------ respawn
\* One remote participant and the scene that mirrors it.  The remote's
\* player tank is built by Game.respawn as new TankPlayer(this, position):
\* no uuid is passed, so the constructor draws a new one (shortUuid.uuid()),
\* here the next number.  Its 100 ms loop sends this.player.export(), which
\* carries that uuid, and nothing is sent about the tank it replaced.
FirstUuid == LocalUuid + 1
IncarnationUuids == FirstUuid..(FirstUuid + MaxRespawns)
RespawnUuids == IncarnationUuids \cup {LocalUuid}
Proxies == {u \in DOMAIN tanks : tanks[u].kind = "network"}

RespawnGameInit ==
    /\ now = 0
    /\ tanks = [u \in RespawnUuids |-> IF u = LocalUuid THEN PlayerTank ELSE NoTank]
    /\ networkTanks = {}
    /\ buffer = <<>>
    /\ loopAlive = TRUE
    /\ gSent = <<>>
    /\ gEvents = <<>>
    /\ gLast = GameCall("init", 0)

\* Game.respawn() in the remote's process.
RemoteRespawn ==
    /\ incarnation < FirstUuid + MaxRespawns
    /\ incarnation' = incarnation + 1
    /\ UNCHANGED <<netVars, gameVars, tankVars, chatVars, relayVars, shootVars,
                   loopVars, steerVars, managerVars>>

\* A snapshot of the remote's player tank arrives on the update channel.
RemoteSnapshot(state) ==
    ReceiveUpdate([uuid |-> incarnation, state |-> state, position |-> "array"])

RespawnNext ==
    \/ Clock
    \/ RemoteRespawn
    \/ \E state \in SnapStates : RemoteSnapshot(state)
    \/ ReplicationTick
    \/ Steps

\* ------------------------------------------------------------ specifications
vars == <<netVars, gameVars, tankVars, chatVars, moreVars>>
MoreInit ==
    /\ relayLog = <<>>
    /\ ShootInit
    /\ LoopInit
    /\ SteerInit
    /\ ManagerInit
    /\ incarnation = FirstUuid

Init == NetInit /\ GameInit /\ TankInit /\ ChatInit /\ MoreInit
Next == NetNext
Spec == Init /\ [][Next]_vars

NextGame == GameNext
SpecGame == Init /\ [][NextGame]_vars

\* The scene while the clock runs and the simulation keeps stepping.
SpecGameFair == SpecGame /\ WF_vars(Clock) /\ WF_vars(Steps)

NextRelay == RelayNext
SpecRelay == Init /\ [][NextRelay]_vars

NextShoot == ShootNext
SpecShoot == Init /\ [][NextShoot]_vars

NextLoop == LoopNext
SpecLoop == Init /\ [][NextLoop]_vars

NextSteer == SteerNext
SpecSteer == Init /\ [][NextSteer]_vars

NextManager == ManagerNext
SpecManager == Init /\ [][NextManager]_vars

InitRespawn == NetInit /\ RespawnGameInit /\ TankInit /\ ChatInit /\ MoreInit
NextRespawn == RespawnNext
SpecRespawn == InitRespawn /\ [][NextRespawn]_vars

NextTank == TankNext
SpecTank == Init /\ [][NextTank]_vars

NextChat == ChatNext
SpecChat == Init /\ [][NextChat]_vars


\* ------------------------------------------------------------------ claims
Members == SeqToSet(connections)
SentTo(c) == Count(sent, LAMBDA e : e.to = c)
SentOn(c, channel) == Count(sent, LAMBDA e : e.to = c /\ e.env.channel = channel)
Emitted(ev) == Count(emitted, LAMBDA e : e.ev = ev)
DistinctUuids(r) == \A i, j \in 1..Len(r) : i # j => r[i].uuid # r[j].uuid
Uuids(r) == {r[i].uuid : i \in 1..Len(r)}
Entries(r) == {r[i] : i \in 1..Len(r)}
IsOpen == last.op = "open"
IsLeave == last.op \in {"close", "error"}

\* C1: an envelope received on connection A is sent exactly once on every
\* other connection of the set, with peer = A's identity and channel and
\* data as received, and is not sent on A's own connection.
RelayFanOut ==
    last.op = "data" =>
        /\ \A d \in Members \ {last.conn} : SentTo(d) = 1
        /\ SentTo(last.conn) = 0
        /\ \A i \in 1..Len(sent) :
            /\ sent[i].to \in Members
            /\ sent[i].env = [channel |-> last.msg.channel,
                              data |-> last.msg.data,
                              peer |-> cpeer[last.conn]]

RelayFanOutWitness ==
    /\ last.op = "data"
    /\ Len(connections) >= 2
    /\ Len(sent) = Len(connections) - 1
    /\ last.conn \in Members
    /\ \E d \in Members : cpeer[d] # cpeer[last.conn]

\* C2: what the host relays does not depend on the peer field the sender
\* wrote: the envelope with any other peer field, received on the same
\* connection, is relayed as the same sends, whose peer is the identity of
\* the connection and whose channel and data are the received ones.
OriginNeverTrusted ==
    last.op = "data" =>
        /\ \A p \in WirePeers \cup {HostId} :
            broadcast(connections, Stamp([last.msg EXCEPT !.peer = p], last.conn),
                      last.conn) = sent
        /\ \A i \in 1..Len(sent) :
            /\ sent[i].env.peer = cpeer[last.conn]
            /\ sent[i].env.channel = last.msg.channel
            /\ sent[i].env.data = last.msg.data

OriginNeverTrustedWitness ==
    /\ last.op = "data"
    /\ last.msg.peer # cpeer[last.conn]
    /\ Len(sent) >= 1

\* C3: when a connection opens on a host with K peers (its open client
\* connections and itself), exactly one join envelope is sent on it, and
\* the peers list of it has K+1 entries: every peer of before and the
\* joining client.
JoinSnapshotComplete ==
    [][\A c \in Conns :
        (last'.op = "open" /\ last'.conn = c) =>
            LET K == Len(connections) + 1
                before == connectedPeers(connections, metadata, peer)
            IN /\ Len(before) = K
               /\ Cardinality({i \in 1..Len(sent') :
                      sent'[i].to = c /\ sent'[i].env.channel = "join"}) = 1
               /\ \A i \in 1..Len(sent') :
                      /\ sent'[i].env.channel = "join"
                      /\ Len(sent'[i].env.data.peers) = K + 1
                      /\ Entries(before) \subseteq Entries(sent'[i].env.data.peers)
                      /\ [uuid |-> cpeer'[c], metadata |-> ConnMetadata(c)]
                             \in Entries(sent'[i].env.data.peers)
                      /\ sent'[i].env.data.peer
                             = [uuid |-> cpeer'[c], metadata |-> ConnMetadata(c)]
      ]_vars

JoinSnapshotCompleteWitness ==
    /\ IsOpen
    /\ Len(connections) >= 2
    /\ SentOn(last.conn, "join") = 1
    /\ \A i \in 1..Len(sent) :
          Len(sent[i].env.data.peers) = Len(connections) + 1

\* C4: the uuids of every roster the host produces (connectedPeers(), the
\* peers notification, the peers list of a join or leave envelope) are
\* pairwise distinct.
RosterUuidsDistinct ==
    /\ DistinctUuids(connectedPeers(connections, metadata, peer))
    /\ \A i \in 1..Len(emitted) :
          emitted[i].ev = "peers" => DistinctUuids(emitted[i].arg)
    /\ (IsOpen \/ IsLeave) =>
          \A i \in 1..Len(sent) : DistinctUuids(sent[i].env.data.peers)

LeaveSymmetry ==
    IsLeave =>
        /\ \A d \in Members : SentOn(d, "leave") = 1
        /\ Len(sent) = Len(connections)
        /\ Emitted("leave") = 1
        /\ \A i \in 1..Len(sent) :
            /\ sent[i].env.data.peer.uuid = cpeer[last.conn]
            /\ cpeer[last.conn] \notin Uuids(sent[i].env.data.peers)
        /\ \A i \in 1..Len(emitted) :
            emitted[i].ev = "peers" => cpeer[last.conn] \notin Uuids(emitted[i].arg)

\* C7: removeConnection(B) takes B alone out of the set, leaves the peer
\* object, the metadata and the status as they were, emits no status, and
\* leaves every other connection with its listeners and its transport, so
\* that its envelopes are handled as before.
RemoveConnectionFrame ==
    [][\A c \in Conns :
        (last'.op \in {"close", "error"} /\ last'.conn = c) =>
            /\ connections' = SetDelete(connections, c)
            /\ peer' = peer
            /\ metadata' = metadata
            /\ peerSt' = peerSt
            /\ status' = status
            /\ \A i \in 1..Len(emitted') : emitted'[i].ev # "status"
            /\ \A d \in Conns \ {c} :
                /\ cst'[d] = cst[d]
                /\ copen'[d] = copen[d]
                /\ (d \in Members) = (d \in SeqToSet(connections'))
      ]_vars

\* ... and every connection of the set has the data listener on it.
MembersListen == \A d \in Members : cst[d] = "added"

RemoveConnectionFrameWitness ==
    /\ IsLeave
    /\ Len(connections) >= 1
    /\ status = "Connected"
    /\ \A d \in Members : copen[d] = "open"

\* C8: a connect() whose Peer errors before it opens has its promise
\* rejected, leaves status Disconnected, no connection and no peer object,
\* and Connected is never emitted for it.
ConnectFailure ==
    /\ last.op = "peerErrorBeforeOpen" =>
          /\ promise[last.attempt] = "rejected"
          /\ status = "Disconnected"
          /\ connections = <<>>
          /\ peer = NoPeer
    /\ \A a \in Attempts : promise[a] = "rejected" => ~everConnected[a]

ConnectFailureWitness ==
    /\ last.op = "peerErrorBeforeOpen"
    /\ last.attempt = 2
    /\ promise[2] = "rejected"
    /\ everConnected[1]
    /\ \E c \in Conns : cst[c] = "added"

\* C9: a candidate the predicate answered false for is closed and is not in
\* the connection set, in no roster, named by no join or leave notification
\* and sent nothing; with no predicate a candidate is admitted.
AdmissionPredicate ==
    /\ \A c \in Conns : verdict[c] = "reject" =>
          /\ c \notin Members
          /\ copen[c] = "closed"
          /\ cst[c] = "rejected"
          /\ SentTo(c) = 0
          /\ ~(last.conn = c /\ last.op \in {"open", "data", "close", "error"})
          /\ ConnMetadata(c) \notin
                {e.metadata : e \in Entries(connectedPeers(connections, metadata, peer))}
          /\ \A i \in 1..Len(emitted) :
                /\ emitted[i].ev \in {"join", "leave"} => emitted[i].arg # ConnMetadata(c)
                /\ emitted[i].ev = "peers" =>
                      ConnMetadata(c) \notin {e.metadata : e \in Entries(emitted[i].arg)}
    /\ last.op = "arriveNoPredicate" =>
          /\ verdict[last.conn] = "admit"
          /\ cst[last.conn] = "admitted"

AdmissionPredicateWitness ==
    /\ \E c \in Conns : verdict[c] = "reject"
    /\ IsOpen
    /\ Len(sent) >= 1


\* C10: a step of the simulation with step duration delta at time now
\* removes a proxy last updated at t exactly when now - t > 5000 + delta,
\* with one remove notification, and removes nothing else; a proxy of t = 0
\* is removed by a step at 5001 with delta 0 and kept by one at 4999 or 5000.
StalenessThreshold ==
    [][gLast'.op = "update" =>
        /\ \A u \in AllUuids :
            LET tank == tanks[u]
                stale == tank.kind = "network"
                         /\ now - tank.lastUpdate > StaleTimeout + gLast'.delta
                removals == {i \in 1..Len(gEvents') :
                                gEvents'[i].ev = "remove" /\ gEvents'[i].uuid = u}
            IN /\ stale => tanks'[u] = NoTank /\ u \notin networkTanks'
               /\ ~stale => tanks'[u] = tank /\ (u \in networkTanks') = (u \in networkTanks)
               /\ Cardinality(removals) = IF stale THEN 1 ELSE 0
               /\ (tank.kind = "network" /\ tank.lastUpdate = 0 /\ gLast'.delta = 0) =>
                     /\ now = StaleTimeout + 1 => tanks'[u] = NoTank
                     /\ now \in {StaleTimeout - 1, StaleTimeout} => tanks'[u] = tank
        /\ \A i \in 1..Len(gEvents') : gEvents'[i].ev = "remove"
      ]_vars

StalenessThresholdWitness ==
    /\ gLast.op = "update"
    /\ gLast.delta = 0
    /\ now = StaleTimeout + 1
    /\ \E i \in 1..Len(gEvents) :
          gEvents[i].ev = "remove" /\ gEvents[i].tank.lastUpdate = 0
    /\ tanks[LocalUuid] = PlayerTank


\* --------------------------------------------------------- claims C11..C20
Buffered(u) == \E i \in 1..Len(buffer) : buffer[i].uuid = u
MaxInstant == CHOOSE x \in Instants : \A y \in Instants : y <= x
Removals(events, u) ==
    Cardinality({i \in 1..Len(events) : events[i].ev = "remove" /\ events[i].uuid = u})
Additions(events, u) ==
    Cardinality({i \in 1..Len(events) : events[i].ev = "add" /\ events[i].uuid = u})
IsTick == gLast.op \in {"tick", "tickThrew"}

\* C11, safety: a proxy leaves the collection only in a step of the
\* simulation, only when stale, with one remove notification; a leave
\* envelope changes nothing in the scene.
OnlyStalenessRemoves ==
    [][/\ \A u \in RemoteUuids :
            (tanks[u].kind = "network" /\ tanks'[u].kind = "absent") =>
                /\ gLast'.op = "update"
                /\ now - tanks[u].lastUpdate > StaleTimeout + gLast'.delta
                /\ Removals(gEvents', u) = 1
       /\ gLast'.op = "leave" =>
            /\ tanks' = tanks
            /\ networkTanks' = networkTanks
            /\ gEvents' = <<>>
      ]_vars

\* C11, liveness: while the clock runs and steps keep occurring, a proxy
\* whose last snapshot is of time t is eventually removed unless a later
\* snapshot is applied to it (t early enough for the clock of the model to
\* pass t + 5000 + the longest step).
SilentPeerEvicted ==
    \A u \in RemoteUuids :
        \A t \in {x \in Instants : x + StaleTimeout + MaxDelta < MaxInstant} :
            (tanks[u].kind = "network" /\ tanks[u].lastUpdate = t)
                ~> (tanks[u].kind = "absent" \/ tanks[u].lastUpdate # t)

\* C11: eviction does not depend on leave: a remote that stops sending
\* has its proxy removed by the steps of the simulation, with one removal
\* notification, whether or not a leave is delivered, and nothing but the
\* staleness test removes a proxy.
EvictionIndependentOfLeave == OnlyStalenessRemoves /\ SilentPeerEvicted

EvictionIndependentOfLeaveWitness ==
    /\ gLast.op = "update"
    /\ gLast.delta = MaxDelta
    /\ now = MaxInstant
    /\ \E i \in 1..Len(gEvents) :
          gEvents[i].ev = "remove" /\ gEvents[i].tank.lastUpdate = 0
    /\ \A u \in RemoteUuids : tanks[u].kind = "absent"

\* C12: every write of health (set, hit, import) stores the written value
\* bounded to [0,100]; die() runs in the write that takes health from above 0
\* to 0 and in no other: writing -30 on a living tank stores 0 with one
\* die(), writing -10 at health 0 stores 0 with none.
ClampedHealth ==
    /\ [](bag.health \in 0..100)
    /\ [][tLast'.arg.health # {} =>
            LET x == CHOOSE v \in tLast'.arg.health : TRUE
            IN /\ bag'.health = (IF x < 0 THEN 0 ELSE IF x > 100 THEN 100 ELSE x)
               /\ dies' = (IF bag.health > 0 /\ bag'.health = 0 THEN 1 ELSE 0)
               /\ (x = -30 /\ bag.health > 0) => (bag'.health = 0 /\ dies' = 1)
               /\ (x = -10 /\ bag.health = 0) =>
                      (bag'.health = 0 /\ dies' = 0 /\ fired' = <<>>)
        ]_vars

ClampedHealthWitness ==
    /\ tLast.op = "setHealth"
    /\ tLast.arg.health = {-10}
    /\ bag.health = 0
    /\ dies = 0
    /\ fired = <<>>

\* C13: import(export()) leaves the value of every property as it was and
\* fires no onChange and no change event.
ImportExportRoundTrip ==
    [][tLast'.op = "importExport" => (bag' = bag /\ fired' = <<>> /\ dies' = 0)]_vars

\* C14: import of a partial record leaves every registered property whose
\* key is absent from it with its value and fires nothing for it, fires
\* nothing for a key that is not registered, and import({health: 50})
\* changes health alone and fires the notifications of health alone.
SparseImport ==
    [][tLast'.op = "import" =>
        LET partial == tLast'.arg
            present == {key \in SeqToSet(Registered) : partial[key] # {}}
        IN /\ \A key \in SeqToSet(Registered) \ present : bag'[key] = bag[key]
           /\ \A i \in 1..Len(fired') : fired'[i].key \in present
           /\ DOMAIN bag' = DOMAIN bag
           /\ partial = [NoPartial EXCEPT !.health = {50}] =>
                 /\ bag' = [bag EXCEPT !.health = 50]
                 /\ fired' = IF bag.health = 50 THEN <<>>
                             ELSE <<Note("onChange", "health", 50, bag.health),
                                    Note("change", "health", 50, bag.health)>>
      ]_vars

SparseImportWitness ==
    /\ tLast.op = "import"
    /\ tLast.arg = [NoPartial EXCEPT !.health = {50}]
    /\ Len(fired) = 2
    /\ bag.health = 50
    /\ bag.headlights = FALSE
    /\ bag.pseudo = "p1"

\* C15: a submission less than 600 ms after the last message sent sends
\* nothing and appends nothing; a submission that sends transmits one chat
\* envelope and leaves one more local entry with its message and date in
\* the list.
ChatRateLimit ==
    [][/\ (chatLast'.op \in {"submitLimited", "submitSent", "submitNothing"}
            /\ chatNow - lastMessageTime < RateLimit) =>
                (chatSent' = <<>> /\ messages' = messages)
       /\ chatLast'.op = "submitSent" =>
            /\ Len(chatSent') = 1
            /\ LET entry == ChatMessage("local", chatSent'[1].data.message,
                                        DateOf(chatSent'[1].data.date))
               IN Count(messages', LAMBDA e : e = entry)
                    = Count(messages, LAMBDA e : e = entry) + 1
      ]_vars

\* C16: a tick whose buffer holds a snapshot with no position for a uuid
\* with no proxy ignores that snapshot: the loop stays scheduled, the local
\* snapshot is sent, the buffer is emptied and the other snapshots are
\* applied.
MalformedSnapshotIgnored ==
    /\ [](loopAlive)
    /\ [][IsTick' =>
            /\ gSent' = <<"update">>
            /\ buffer' = <<>>
            /\ \A i \in 1..Len(buffer) :
                  IF Throws(Manager(tanks, networkTanks, <<>>), buffer[i])
                  THEN tanks'[buffer[i].uuid] = tanks[buffer[i].uuid]
                  ELSE tanks'[buffer[i].uuid].state = buffer[i].state
        ]_vars

\* C17: Connected is emitted only for the attempt started last, with
\* Connecting its latest status: not without a Connecting before it, and not
\* by an attempt that a later connect() or disconnect() has superseded.
HostStatusSequence ==
    [][last'.op = "peerOpen" =>
        /\ status = "Connecting"
        /\ \A b \in Attempts : b > last'.attempt => peerSt[b] = "none"
      ]_vars

\* C18: a received snapshot is applied to nothing on receipt and replaces
\* what the buffer held for its uuid; a tick applies to each buffered uuid
\* the snapshot the buffer holds for it and leaves the buffer empty.
LastWriteWins ==
    [][/\ \A data \in Snapshots : ReceiveUpdate(data) =>
            /\ tanks' = tanks
            /\ networkTanks' = networkTanks
            /\ gEvents' = <<>>
            /\ data.uuid # LocalUuid =>
                  {i \in 1..Len(buffer') : buffer'[i].uuid = data.uuid}
                      = {i \in 1..Len(buffer') : buffer'[i] = data}
            /\ data.uuid # LocalUuid =>
                  Cardinality({i \in 1..Len(buffer') : buffer'[i] = data}) = 1
       /\ IsTick' =>
            /\ buffer' = <<>>
            /\ \A i \in 1..Len(buffer) :
                  tanks'[buffer[i].uuid].state = buffer[i].state
      ]_vars

\* C19: at a tick a buffered uuid with no proxy gets one proxy, with one
\* add notification, and its snapshot; one with a proxy gets its snapshot
\* and no add notification; the uuid of the local player is never buffered
\* and never a proxy.
LazyProxyLifecycle ==
    /\ [](~Buffered(LocalUuid) /\ tanks[LocalUuid].kind = "player")
    /\ [][IsTick' =>
            \A i \in 1..Len(buffer) :
                LET u == buffer[i].uuid
                IN /\ tanks'[u].kind = "network"
                   /\ u \in networkTanks'
                   /\ tanks'[u].state = buffer[i].state
                   /\ tanks'[u].lastUpdate = now
                   /\ Additions(gEvents', u) = (IF tanks[u].kind = "absent" THEN 1 ELSE 0)
        ]_vars

\* C20: a candidate that the predicate admitted and whose connection is
\* open is in the connection set, with the listeners of addConnection on it.
AdmittedOpenIsAdded ==
    \A c \in Conns :
        (verdict[c] = "admit" /\ copen[c] = "open") =>
            (c \in Members /\ cst[c] = "added")

\* --------------------------------------------------------- claims C21..C30
\* C22: the Host never calls connection.send with an envelope whose
\* channel is peers, whatever the clients send to it.
PeersNeverTransmitted ==
    \A i \in 1..Len(sent) : sent[i].env.channel # "peers"

\* C30: after disconnect() the status is Disconnected, the set is empty,
\* connectedPeers() is empty and send() transmits nothing; and while the
\* host is disconnected an event of an earlier connection (data, close,
\* error, open) sends nothing and emits no join, leave or peers
\* notification.
HostDisconnectPostState ==
    [][/\ last'.op = "disconnect" =>
            /\ status' = "Disconnected"
            /\ connections' = <<>>
            /\ connectedPeers(connections', metadata', peer') = <<>>
            /\ send(connections', peer', "chat", "a") = <<>>
       /\ (status = "Disconnected" /\ peer = NoPeer
            /\ last'.op \in {"data", "close", "error", "open"}) =>
                /\ sent' = <<>>
                /\ \A i \in 1..Len(emitted') :
                      emitted'[i].ev \notin {"join", "leave", "peers"}
      ]_vars

\* C23: a chat envelope sent by a submission carries the first 100
\* characters of the trimmed input (all of it when shorter) and so at most
\* 100; a local entry of the log made by that submission carries the same
\* text, and is there whenever the log had room; with no peer data nothing
\* is sent and the log is unchanged.
ChatTruncation ==
    [][/\ chatLast'.op = "submitSent" =>
            LET trimmed == TrimEnd(TrimStart(inputValue))
                text == chatSent'[1].data.message
                mine == {i \in 1..Len(messages') :
                            messages'[i].from = "local" /\ messages'[i].date = chatNow}
            IN /\ Len(chatSent') = 1
               /\ Len(text) <= MessageLimit
               /\ Len(text) = (IF Len(trimmed) < MessageLimit THEN Len(trimmed)
                               ELSE MessageLimit)
               /\ \A k \in 1..Len(text) : text[k] = trimmed[k]
               /\ \A i \in mine : messages'[i].message = text
               /\ Len(messages) < MaxKept => Cardinality(mine) = 1
       /\ Submit(FALSE) => (chatSent' = <<>> /\ messages' = messages)
      ]_vars

ChatTruncationWitness ==
    /\ chatLast.op = "submitSent"
    /\ Len(chatLast.text) = MessageLimit + 1
    /\ Len(chatSent) = 1
    /\ Len(chatSent[1].data.message) = MessageLimit
    /\ \E i \in 1..Len(messages) :
          messages[i].from = "local" /\ messages[i].message = chatSent[1].data.message

\* C28: the log holds at most 50 entries, latest first, and they are the
\* latest by date: a message sent with a date no older than any in the log
\* is in the log afterwards.
ChatLogRetention ==
    /\ [](/\ Len(messages) <= MaxKept
          /\ \A i, j \in 1..Len(messages) : i < j => messages[i].date >= messages[j].date)
    /\ [][(chatLast'.op = "submitSent"
            /\ \A i \in 1..Len(messages) : messages[i].date <= chatNow) =>
                \E i \in 1..Len(messages') :
                    /\ messages'[i].from = "local"
                    /\ messages'[i].date = chatNow
        ]_vars

\* C21: the envelopes of one connection are dispatched locally in the
\* order they arrived, another connection is sent them in that order, and
\* each is dispatched locally before it is sent to any connection.
RelayFifo ==
    \A i, j \in 1..Len(relayLog) :
        LET x == relayLog[i]
            y == relayLog[j]
        IN /\ (i < j /\ x.kind = y.kind /\ x.from = y.from /\ x.conn = y.conn) =>
                  x.env.data < y.env.data
           /\ y.kind = "send" =>
                  \E k \in 1..(j - 1) :
                      /\ relayLog[k].kind = "dispatch"
                      /\ relayLog[k].conn = y.from
                      /\ relayLog[k].env.data = y.env.data

RelayFifoWitness ==
    \E a, d \in Conns :
        /\ a # d
        /\ Count(relayLog, LAMBDA e : e.kind = "dispatch" /\ e.conn = a) = 2
        /\ Count(relayLog, LAMBDA e : e.kind = "send" /\ e.from = a /\ e.conn = d) = 2

\* C24: a call of shoot made when the tank is dead or less than 750 ms
\* after the last shot that succeeded is rejected and sends nothing; any
\* other call succeeds and sends one tank:shoot event; so the events sent
\* are pairwise at least 750 ms apart and a dead tank sends none.
ShootRateLimit ==
    /\ [](\A i, j \in 1..Len(shootTimes) :
            i < j => shootTimes[j] - shootTimes[i] >= ShootDelay)
    /\ [][shootLast'.op = "shoot" =>
            LET rejected == shooterDead \/ shootNow - lastShot < ShootDelay
            IN /\ shootLast'.returned = ~rejected
               /\ rejected => (shootSent' = <<>> /\ lastShot' = lastShot)
               /\ ~rejected =>
                     /\ shootSent' = <<[event |-> "tank:shoot", data |-> LocalUuid]>>
                     /\ lastShot' = shootNow
        ]_vars

ShootRateLimitWitness ==
    /\ shootLast.op = "shoot"
    /\ Len(shootSent) = 1
    /\ Len(shootTimes) >= 2
    /\ shootTimes[2] - shootTimes[1] = ShootDelay

\* C25: the delay given to setTimeout after a tick is the interval less
\* the time the tick took, and 0 when it took longer; the starts of two
\* consecutive ticks are at least the interval apart; the delay is never
\* negative; at most one invocation of the callback is in flight.
LoopCadence ==
    /\ [](loopDelay >= 0 /\ loopActive <= 1)
    /\ [][/\ loopLast' = "resolves" =>
                LET elapsed == loopNow - loopStart
                IN /\ elapsed < MinInterval => loopDelay' = MinInterval - elapsed
                   /\ elapsed >= MinInterval => loopDelay' = 0
          /\ loopLast' = "fires" => loopStart' - loopStart >= MinInterval
        ]_vars

LoopCadenceWitness ==
    /\ loopLast = "fires"
    /\ loopDelay = HalfInterval
    /\ loopStart = loopPrevStart + MinInterval
    /\ loopPrevStart > 0


\* C29: steering never exceeds steeringClamp in magnitude; and while no
\* turn key is held it comes to 0 within finitely many updates (SettleSteps
\* of them at most) and stays there.
SteeringWithinClamp ==
    /\ [](Abs(steering) <= SteeringClamp)
    /\ [](steerIdle >= SettleSteps => steering = 0)
    /\ [][(steering = 0 /\ ~steerKeys'.left /\ ~steerKeys'.right) => steering' = 0]_vars


\* C27: the index holds exactly the entries of the main collection that
\* are network proxies, under the same uuid and as the same object; set on
\* a uuid that is present changes nothing and fires no add notification;
\* delete fires a remove notification exactly when the uuid was present.
ManagerIndexConsistent ==
    /\ [](\A u \in AllUuids :
            mgrNetwork[u] = IF mgrTanks[u] # NoObject /\ IsTankNetwork(mgrTanks[u])
                            THEN mgrTanks[u] ELSE NoObject)
    /\ [][(mgrLast'.op \in {"set", "add"} /\ mgrTanks[mgrLast'.uuid] # NoObject) =>
            /\ mgrTanks' = mgrTanks
            /\ mgrNetwork' = mgrNetwork
            /\ mgrEvents' = <<>>
        ]_vars
    /\ [][mgrLast'.op \in {"delete", "remove"} =>
            ((mgrEvents' # <<>>) <=> (mgrTanks[mgrLast'.uuid] # NoObject))
        ]_vars


\* C26: the scene holds at most one proxy for the remote participant,
\* also after that participant respawned and went on sending snapshots.
OneProxyPerParticipant == Cardinality(Proxies) <= 1


\* C31: the first envelope sent on a connection is the join envelope of
\* that connection; every envelope a handler sends goes to a connection
\* that is in the set when it is sent; and none goes to a connection that
\* removeConnection has removed.
JoinFirstNothingAfter ==
    /\ [](\A c \in Conns : firstSent[c] # <<>> =>
            /\ firstSent[c][1].channel = "join"
            /\ firstSent[c][1].peer = HostId
            /\ firstSent[c][1].about = <<PeerDataOf(c)>>)
    /\ [][\A i \in 1..Len(sent') : sent'[i].to \in SeqToSet(connections')]_vars
    /\ [](\A i \in 1..Len(sent) : cst[sent[i].to] # "removed")

JoinFirstNothingAfterWitness ==
    \E c, d \in Conns :
        /\ cst[d] = "removed"
        /\ c \in Members
        /\ last.op = "send"
        /\ SentTo(c) = 1
        /\ SentTo(d) = 0
        /\ firstSent[c] # <<>>
        /\ firstSent[c][1].channel = "join"
        /\ firstSent[d] # <<>>

====
